---- MODULE Spec2Model ----
(***************************************************************************)
(* Model of the convoy route optimizer (src/src/optimizer.py):             *)
(* ConvoyOptimizer._build_graph, _find_path_distance, optimize_routes and  *)
(* _assign_vehicle_route.                                                  *)
(*                                                                         *)
(* Distances are whole kilometres.  A coordinate is a position, in km of   *)
(* arc, along one meridian, so the great-circle distance of two points is  *)
(* the absolute difference of their positions.  float('inf') is Inf.       *)
(***************************************************************************)
EXTENDS Integers, Sequences, FiniteSets, TLC

VARIABLES
    routes,                 \* self.routes: the road segments, in table order
    graph,                  \* self.graph: id -> ordered neighbour entries
    supply_points,          \* self.supply_points: id -> row
    destinations,           \* self.destinations: dest_id -> row
    vehicles,               \* self.vehicles: sequence of rows
    supply_point_id,        \* optimize_routes argument
    available_vehicles,     \* optimize_routes argument
    avoid_high_threat,      \* optimize_routes argument
    pc,                     \* position of the call
    sorted_vehicles,        \* local `vehicles` of optimize_routes after the sort
    vi,                     \* index of the vehicle the loop is at
    remaining_destinations, \* local of optimize_routes
    assignments,            \* local of optimize_routes, the returned list
    route_sequence,         \* locals of _assign_vehicle_route
    assigned_destinations,
    total_distance,
    total_demand,
    max_threat_seen,
    current_location,
    remaining,
    query,                  \* the last _find_path_distance call made directly
    result                  \* and what it returned

vars == <<routes, graph, supply_points, destinations, vehicles, supply_point_id,
          available_vehicles, avoid_high_threat, pc, sorted_vehicles, vi,
          remaining_destinations, assignments, route_sequence,
          assigned_destinations, total_distance, total_demand,
          max_threat_seen, current_location, remaining, query, result>>

worldVars == <<supply_points, destinations, vehicles>>
callVars == <<supply_point_id, available_vehicles, avoid_high_threat,
              sorted_vehicles, vi, remaining_destinations, assignments>>
routeVars == <<route_sequence, assigned_destinations, total_distance,
               total_demand, max_threat_seen, current_location, remaining>>

----------------------------------------------------------------------------
(* Bounds of the model                                                     *)

\* most road segments loaded before path queries (path specification)
MaxRoutes == 4
\* most road segments of an optimizer run's road table
MaxOptRoutes == 2
\* most rows of the vehicle table
MaxVehicles == 2

\* float('inf')
Inf == 1000000
\* _get_coords returning None
NoCoords == -1

----------------------------------------------------------------------------
(* Helpers                                                                 *)

Abs(x) == IF x < 0 THEN -x ELSE x

Last(s) == s[Len(s)]

RECURSIVE SeqSum(_)
SeqSum(s) == IF s = <<>> THEN 0 ELSE Head(s) + SeqSum(Tail(s))

Range(s) == {s[i] : i \in DOMAIN s}

\* no element occurs twice in the sequence
NoRepeat(path) == \A i, j \in DOMAIN path : path[i] = path[j] => i = j

\* all sequences over S of length at most n
SeqsUpTo(S, n) == UNION {[1..k -> S] : k \in 0..n}

----------------------------------------------------------------------------
(* threat_threshold and its .get(level, 0)                                 *)

threat_threshold(level) ==
    CASE level = "low" -> 1
      [] level = "medium" -> 2
      [] level = "high" -> 3
      [] OTHER -> 0

\* the "higher threat" update of lines 132-135, 368-369 and 397-398
MutHigherThreat(new, seen) == new
HigherThreat(new, seen) ==
    IF threat_threshold(new) > threat_threshold(seen) THEN new ELSE seen

----------------------------------------------------------------------------
(* _build_graph: one road segment inserted in both directions.  A dict     *)
(* keeps its keys in insertion order; assigning to a key already present   *)
(* replaces the value in place.                                            *)

EdgeData(to, route) ==
    [to |-> to, distance_km |-> route.distance_km,
     threat_level |-> route.threat_level]

\* a dict that kept the first value of a key would give this
MutDictSet(adj, nb, route) ==
    IF \E i \in DOMAIN adj : adj[i].to = nb THEN adj
    ELSE Append(adj, EdgeData(nb, route))
\* adj[nb] = data on an insertion-ordered dict
DictSet(adj, nb, route) ==
    IF \E i \in DOMAIN adj : adj[i].to = nb
    THEN [i \in DOMAIN adj |->
            IF adj[i].to = nb THEN EdgeData(nb, route) ELSE adj[i]]
    ELSE Append(adj, EdgeData(nb, route))

\* graph.get(id, {}) after "if id not in graph: graph[id] = {}"
AdjOf(g, id) == IF id \in DOMAIN g THEN g[id] ELSE <<>>

\* the one-way insertion a slip in lines 81-82 would give
MutAddRoute(g, route) ==
    LET f == route.from_point
        t == route.to_point
    IN  [n \in DOMAIN g \cup {f, t} |->
            IF n = f THEN DictSet(AdjOf(g, f), t, route) ELSE AdjOf(g, n)]
\* the body of the loop of _build_graph for one row of routes
AddRoute(g, route) ==
    LET f == route.from_point
        t == route.to_point
        g1 == [n \in DOMAIN g \cup {f, t} |->
                 IF n = f THEN DictSet(AdjOf(g, f), t, route) ELSE AdjOf(g, n)]
    IN  [n \in DOMAIN g1 |->
            IF n = t THEN DictSet(g1[t], f, route) ELSE g1[n]]

EmptyGraph == [n \in {} |-> <<>>]

RECURSIVE BuildGraphFrom(_, _)
BuildGraphFrom(g, rows) ==
    IF rows = <<>> THEN g
    ELSE BuildGraphFrom(AddRoute(g, Head(rows)), Tail(rows))

_build_graph(rows) == BuildGraphFrom(EmptyGraph, rows)

_get_edge(from_id, to_id) ==
    IF from_id \in DOMAIN graph /\ \E i \in DOMAIN graph[from_id] :
                                       graph[from_id][i].to = to_id
    THEN LET i == CHOOSE i \in DOMAIN graph[from_id] :
                      graph[from_id][i].to = to_id
         IN  <<graph[from_id][i]>>
    ELSE <<>>

----------------------------------------------------------------------------
(* _get_coords and _haversine_distance                                     *)

Mut_get_coords(point_id) ==
    IF point_id \in DOMAIN supply_points THEN supply_points[point_id].pos
    ELSE IF point_id \in DOMAIN destinations THEN destinations[point_id].pos
    ELSE 0
_get_coords(point_id) ==
    IF point_id \in DOMAIN supply_points THEN supply_points[point_id].pos
    ELSE IF point_id \in DOMAIN destinations THEN destinations[point_id].pos
    ELSE NoCoords

_haversine_distance(coord1, coord2) == Abs(coord2 - coord1)

----------------------------------------------------------------------------
(* _find_path_distance                                                     *)

PathResult(d, p, t) == [distance |-> d, path |-> p, threat |-> t]

\* lines 143-152: no path in the graph
MutStraightLine(from_id, to_id) == PathResult(Inf, <<>>, "high")
MutStraightLineThreat(from_id, to_id) ==
    IF _get_coords(from_id) # NoCoords /\ _get_coords(to_id) # NoCoords
    THEN PathResult(_haversine_distance(_get_coords(from_id),
                                        _get_coords(to_id)),
                    <<from_id, to_id>>, "medium")
    ELSE PathResult(Inf, <<>>, "high")
StraightLine(from_id, to_id) ==
    IF _get_coords(from_id) # NoCoords /\ _get_coords(to_id) # NoCoords
    THEN PathResult(_haversine_distance(_get_coords(from_id),
                                        _get_coords(to_id)),
                    <<from_id, to_id>>, "low")
    ELSE PathResult(Inf, <<>>, "high")

\* lines 114-141: the queue holds (current, path, dist, max_threat); i is the
\* position of the for loop in the adjacency of the entry at the head
RECURSIVE BFS(_, _, _, _, _, _)
BFS(queue, visited, i, from_id, to_id, avoid) ==
    IF queue = <<>> THEN StraightLine(from_id, to_id)
    ELSE LET cur == Head(queue) IN
      IF cur.current \notin DOMAIN graph \/ i > Len(graph[cur.current])
      THEN BFS(Tail(queue), visited, 1, from_id, to_id, avoid)
      ELSE LET e == graph[cur.current][i] IN
        IF e.to \in visited
        THEN BFS(queue, visited, i + 1, from_id, to_id, avoid)
        ELSE IF avoid /\ e.threat_level = "high"
        THEN BFS(queue, visited, i + 1, from_id, to_id, avoid)
        ELSE LET new_dist == cur.dist + e.distance_km
                 new_path == Append(cur.path, e.to)
                 new_threat == HigherThreat(e.threat_level, cur.max_threat)
             IN  IF e.to = to_id
                 THEN PathResult(new_dist, new_path, new_threat)
                 ELSE BFS(Append(queue, [current |-> e.to, path |-> new_path,
                                         dist |-> new_dist,
                                         max_threat |-> new_threat]),
                          visited \cup {e.to}, i + 1, from_id, to_id, avoid)

\* a direct-edge shortcut taken whatever the edge's threat would give this
Mut_find_path_distance(from_id, to_id, avoid) ==
    IF from_id = to_id THEN PathResult(0, <<from_id>>, "low")
    ELSE LET edge == _get_edge(from_id, to_id) IN
      IF edge # <<>>
      THEN PathResult(edge[1].distance_km, <<from_id, to_id>>,
                      edge[1].threat_level)
      ELSE BFS(<<[current |-> from_id, path |-> <<from_id>>, dist |-> 0,
                  max_threat |-> "low"]>>,
               {from_id}, 1, from_id, to_id, avoid)

_find_path_distance(from_id, to_id, avoid) ==
    IF from_id = to_id THEN PathResult(0, <<from_id>>, "low")
    ELSE LET edge == _get_edge(from_id, to_id) IN
      IF edge # <<>> /\ ~(avoid /\ edge[1].threat_level = "high")
      THEN PathResult(edge[1].distance_km, <<from_id, to_id>>,
                      edge[1].threat_level)
      ELSE BFS(<<[current |-> from_id, path |-> <<from_id>>, dist |-> 0,
                  max_threat |-> "low"]>>,
               {from_id}, 1, from_id, to_id, avoid)

----------------------------------------------------------------------------
(* Input domains                                                           *)

Route(f, t, d, th) ==
    [from_point |-> f, to_point |-> t, distance_km |-> d, threat_level |-> th]

\* the road segments a road table is drawn from
RoadMenu ==
    { Route("SP1", "D1", 50, "low"),
      Route("SP1", "D2", 30, "high"),
      Route("D1", "D3", 30, "medium"),
      Route("D2", "D3", 50, "low"),
      Route("D3", "SP1", 50, "high"),
      Route("D2", "D1", 30, "medium"),
      Route("D1", "SP1", 30, "high") }

\* ids a path query is made with; SP9 is in no table
QueryIds == {"SP1", "D1", "D2", "D3", "SP9"}

SupplyRow(p, a) == [pos |-> p, has_airstrip |-> a]
DestRow(p, dem, a, pr) ==
    [pos |-> p, total_demand_tons |-> dem, has_airstrip |-> a,
     priority_score |-> pr]
VehicleRow(id, cap, rng, m) ==
    [vehicle_id |-> id, capacity_tons |-> cap, max_range_km |-> rng, mode |-> m]

\* the tables of the path specification
PathSupplyPoints == [id \in {"SP1"} |-> SupplyRow(0, TRUE)]
PathDestinations ==
    [id \in {"D1", "D2", "D3"} |->
        CASE id = "D1" -> DestRow(40, 40, TRUE, 2)
          [] id = "D2" -> DestRow(0, 20, TRUE, 2)
          [] id = "D3" -> DestRow(80, 20, TRUE, 2)]

\* the optimizer's variables before any optimize_routes call
CallIdle ==
    /\ supply_point_id = "SP1"
    /\ available_vehicles = {}
    /\ avoid_high_threat = TRUE
    /\ sorted_vehicles = <<>>
    /\ vi = 0
    /\ remaining_destinations = {}
    /\ assignments = <<>>
    /\ route_sequence = <<>>
    /\ assigned_destinations = <<>>
    /\ total_distance = 0
    /\ total_demand = 0
    /\ max_threat_seen = "low"
    /\ current_location = "SP1"
    /\ remaining = {}

NoQuery == <<>>

----------------------------------------------------------------------------
(* Path specification: the constructor loads road segments one row at a    *)
(* time, then _find_path_distance is called on the built graph.            *)

InitPath ==
    /\ routes = <<>>
    /\ graph = EmptyGraph
    /\ supply_points = PathSupplyPoints
    /\ destinations = PathDestinations
    /\ vehicles = <<>>
    /\ pc = "build"
    /\ query = NoQuery
    /\ result = NoQuery
    /\ CallIdle

\* one iteration of the loop of _build_graph
LoadRoute(route) ==
    /\ pc = "build"
    /\ Len(routes) < MaxRoutes
    /\ routes' = Append(routes, route)
    /\ graph' = AddRoute(graph, route)
    /\ UNCHANGED <<worldVars, callVars, routeVars, pc, query, result>>

\* the loop ends: __init__ returns
Constructed ==
    /\ pc = "build"
    /\ pc' = "ready"
    /\ UNCHANGED <<routes, graph, worldVars, callVars, routeVars, query, result>>

\* one call of _find_path_distance on the constructed optimizer
FindPath(from_id, to_id, avoid) ==
    /\ pc = "ready"
    /\ pc' = "returned"
    /\ query' = [from_id |-> from_id, to_id |-> to_id, avoid |-> avoid]
    /\ result' = _find_path_distance(from_id, to_id, avoid)
    /\ UNCHANGED <<routes, graph, worldVars, callVars, routeVars>>

NextPath ==
    \/ \E route \in RoadMenu : LoadRoute(route)
    \/ Constructed
    \/ \E from_id \in QueryIds, to_id \in QueryIds, avoid \in BOOLEAN :
          FindPath(from_id, to_id, avoid)

SpecPath == InitPath /\ [][NextPath]_vars

----------------------------------------------------------------------------
(* optimize_routes and _assign_vehicle_route                               *)

\* the road segments of an optimizer run's road table
OptRoadMenu ==
    { Route("SP1", "D1", 50, "low"),
      Route("SP1", "D2", 30, "high"),
      Route("D2", "D1", 30, "medium") }

\* the rows a vehicle table is drawn from: (capacity_tons, max_range_km, mode)
VehicleMenu ==
    { <<100, 200, "GROUND">>, <<50, 60, "WATER">>, <<50, 200, "AIR">> }

VehicleIds == <<"V1", "V2", "V3">>

VehicleTables ==
    { [i \in DOMAIN t |-> VehicleRow(VehicleIds[i], t[i][1], t[i][2], t[i][3])] :
        t \in SeqsUpTo(VehicleMenu, MaxVehicles) }

\* which of SP1, D1, D2 have an airstrip
AirstripChoices == { {"SP1", "D1", "D2"}, {"SP1", "D2"}, {"D1", "D2"} }

\* where D1 and D2 lie; SP1 lies at 0
PositionChoices == { <<40, 0>>, <<120, 0>>, <<40, 40>> }

SupplyTable(strips) == [id \in {"SP1"} |-> SupplyRow(0, id \in strips)]

\* D1 demands 40 t with high priority, D2 20 t with low priority
DestTable(strips, at) ==
    [id \in {"D1", "D2"} |->
        IF id = "D1" THEN DestRow(at[1], 40, id \in strips, 3)
                     ELSE DestRow(at[2], 20, id \in strips, 1)]

\* vehicle ids a caller offers: the whole fleet, or the fleet without V1
AvailableChoices == { {"V1", "V2", "V3"}, {"V2", "V3"} }

\* supply point ids a caller asks for: a supply point, a destination, and an
\* id of no table
SupplyPointChoices == {"SP1", "D1", "SP9"}

\* road tables of the optimizer specification: a row loaded twice leaves the
\* graph as loading it once does, so each table lists a segment once
OptRoadTables ==
    {rows \in SeqsUpTo(OptRoadMenu, MaxOptRoutes) : NoRepeat(rows)}

Init ==
    /\ routes \in OptRoadTables
    /\ graph = _build_graph(routes)
    /\ \E strips \in AirstripChoices, at \in PositionChoices :
          /\ supply_points = SupplyTable(strips)
          /\ destinations = DestTable(strips, at)
    /\ vehicles \in VehicleTables
    /\ supply_point_id \in SupplyPointChoices
    /\ available_vehicles \in AvailableChoices
    /\ avoid_high_threat \in BOOLEAN
    /\ pc = "ready"
    /\ sorted_vehicles = <<>>
    /\ vi = 0
    /\ remaining_destinations = {}
    /\ assignments = <<>>
    /\ route_sequence = <<>>
    /\ assigned_destinations = <<>>
    /\ total_distance = 0
    /\ total_demand = 0
    /\ max_threat_seen = "low"
    /\ current_location = supply_point_id
    /\ remaining = {}
    /\ query = NoQuery
    /\ result = NoQuery

\* self.vehicles[self.vehicles['vehicle_id'].isin(available_vehicles)]
SelectedVehicles ==
    SelectSeq(vehicles, LAMBDA v : v.vehicle_id \in available_vehicles)

\* the selected rows left in table order
MutSortedByCapacity(rows) == {rows}
\* sort_values('capacity_tons', ascending=False): every order of the rows
\* with non-increasing capacity (the order of equal capacities is the sort's)
SortedByCapacity(rows) ==
    LET n == Len(rows)
        perms == {f \in [1..n -> 1..n] : \A i, j \in 1..n : i # j => f[i] # f[j]}
    IN  { [i \in 1..n |-> rows[f[i]]] : f \in
            {g \in perms : \A i \in 1..(n - 1) :
                rows[g[i]].capacity_tons >= rows[g[i + 1]].capacity_tons} }

MaxOf(S) == CHOOSE x \in S : \A y \in S : y <= x

\* lines 226-235: destinations whose round trip is within the longest range
ReachableDestinations(rows) ==
    LET max_vehicle_range == MaxOf({rows[i].max_range_km : i \in DOMAIN rows})
    IN  {d \in DOMAIN destinations :
            _haversine_distance(_get_coords(supply_point_id), destinations[d].pos) * 2
                <= max_vehicle_range}

\* optimize_routes, lines 209-248: up to the vehicle loop
optimize_routes ==
    /\ pc = "ready"
    /\ IF \/ SelectedVehicles = <<>>
          \/ _get_coords(supply_point_id) = NoCoords
          \/ ReachableDestinations(SelectedVehicles) = {}
       THEN /\ pc' = "done"
            /\ UNCHANGED <<sorted_vehicles, vi, remaining_destinations>>
       ELSE /\ pc' = "vehicle"
            /\ sorted_vehicles' \in SortedByCapacity(SelectedVehicles)
            /\ vi' = 1
            /\ remaining_destinations' = ReachableDestinations(SelectedVehicles)
    /\ UNCHANGED <<routes, graph, worldVars, supply_point_id, available_vehicles,
                   avoid_high_threat, assignments, routeVars, query, result>>

_get_demand(dest_row) == dest_row.total_demand_tons

\* lines 284-287: an aircraft cannot depart from a supply point without airstrip
AirOriginRejected(vehicle) ==
    /\ vehicle.mode = "AIR"
    /\ supply_point_id \in DOMAIN supply_points
    /\ ~supply_points[supply_point_id].has_airstrip

\* lines 250-259 and 279-296: the loop takes the next vehicle and
\* _assign_vehicle_route starts on it
NextVehicle ==
    /\ pc = "vehicle"
    /\ IF vi > Len(sorted_vehicles) \/ remaining_destinations = {}
       THEN /\ pc' = "done"
            /\ UNCHANGED <<vi, routeVars>>
       ELSE IF AirOriginRejected(sorted_vehicles[vi])
       THEN /\ pc' = "vehicle"
            /\ vi' = vi + 1
            /\ UNCHANGED routeVars
       ELSE /\ pc' = "greedy"
            /\ route_sequence' = <<supply_point_id>>
            /\ assigned_destinations' = <<>>
            /\ total_distance' = 0
            /\ total_demand' = 0
            /\ max_threat_seen' = "low"
            /\ current_location' = supply_point_id
            /\ remaining' = remaining_destinations
            /\ UNCHANGED vi
    /\ UNCHANGED <<routes, graph, worldVars, supply_point_id, available_vehicles,
                   avoid_high_threat, sorted_vehicles, remaining_destinations,
                   assignments, query, result>>

\* lines 313-314
MutModeCompatible(vehicle, dest_id) == TRUE
ModeCompatible(vehicle, dest_id) ==
    ~(vehicle.mode = "AIR" /\ ~destinations[dest_id].has_airstrip)

\* lines 318-320
MutWithinCapacity(vehicle, dest_id) ==
    ~(_get_demand(destinations[dest_id]) > vehicle.capacity_tons)
WithinCapacity(vehicle, dest_id) ==
    ~(total_demand + _get_demand(destinations[dest_id]) > vehicle.capacity_tons)

\* lines 322-340
MutWithinRange(vehicle, dest_id) ==
    LET dist_to_dest == _find_path_distance(current_location, dest_id,
                                            avoid_high_threat).distance
    IN  /\ dist_to_dest # Inf
        /\ ~(total_distance + dist_to_dest > vehicle.max_range_km)
\* a return leg measured from where the vehicle stands would give this
MutWithinRangeFromHere(vehicle, dest_id) ==
    LET dist_to_dest == _find_path_distance(current_location, dest_id,
                                            avoid_high_threat).distance
        dist_back == _find_path_distance(current_location, supply_point_id,
                                         avoid_high_threat).distance
    IN  /\ dist_to_dest # Inf
        /\ dist_back # Inf
        /\ ~(total_distance + dist_to_dest + dist_back > vehicle.max_range_km)
WithinRange(vehicle, dest_id) ==
    LET dist_to_dest == _find_path_distance(current_location, dest_id,
                                            avoid_high_threat).distance
        dist_back == _find_path_distance(dest_id, supply_point_id,
                                         avoid_high_threat).distance
    IN  /\ dist_to_dest # Inf
        /\ dist_back # Inf
        /\ ~(total_distance + dist_to_dest + dist_back > vehicle.max_range_km)

\* lines 304-340: the candidates the for loop does not skip
Eligible(vehicle) ==
    {dest_id \in remaining :
        /\ dest_id \in DOMAIN destinations
        /\ ModeCompatible(vehicle, dest_id)
        /\ WithinCapacity(vehicle, dest_id)
        /\ WithinRange(vehicle, dest_id)}

\* a loop that served the most urgent candidate first would give this
MutBestChoicesPriority(vehicle) ==
    {d \in Eligible(vehicle) :
        \A o \in Eligible(vehicle) :
           \/ destinations[d].priority_score > destinations[o].priority_score
           \/ /\ destinations[d].priority_score = destinations[o].priority_score
              /\ _find_path_distance(current_location, d,
                                     avoid_high_threat).distance
                   <= _find_path_distance(current_location, o,
                                          avoid_high_threat).distance}
\* a loop that took the first candidate it did not skip would give this
MutBestChoices(vehicle) == Eligible(vehicle)
\* a loop that left after its first selection would give this
MutBestChoicesOneStop(vehicle) ==
    IF assigned_destinations # <<>> THEN {}
    ELSE {d \in Eligible(vehicle) :
            \A o \in Eligible(vehicle) :
               _find_path_distance(current_location, d, avoid_high_threat).distance
                 <= _find_path_distance(current_location, o,
                                        avoid_high_threat).distance}
\* lines 342-347: a candidate replaces the best only when strictly closer, so
\* the loop ends on a closest eligible candidate; which one of several at the
\* same distance depends on the iteration order of the set
BestChoices(vehicle) ==
    LET eligible == Eligible(vehicle)
        dist_to == [d \in eligible |->
                      _find_path_distance(current_location, d,
                                          avoid_high_threat).distance]
    IN  {d \in eligible : \A o \in eligible : dist_to[d] <= dist_to[o]}

\* one iteration of the while loop that selects a destination, lines 298-371
SelectDestination ==
    /\ pc = "greedy"
    /\ \E best_dest \in BestChoices(sorted_vehicles[vi]) :
         LET best == _find_path_distance(current_location, best_dest,
                                         avoid_high_threat)
         IN  /\ assigned_destinations' = Append(assigned_destinations, best_dest)
             /\ route_sequence' = route_sequence \o Tail(best.path)
             /\ total_distance' = total_distance + best.distance
             /\ total_demand' = total_demand + _get_demand(destinations[best_dest])
             /\ remaining' = remaining \ {best_dest}
             /\ max_threat_seen' = HigherThreat(best.threat, max_threat_seen)
             /\ current_location' = best_dest
    /\ UNCHANGED <<routes, graph, worldVars, callVars, pc, query, result>>

\* lines 381-385: the nodes of the return path close the route
MutCloseRoute(sequence, path_back) ==
    IF path_back # <<>> THEN sequence ELSE Append(sequence, supply_point_id)
CloseRoute(sequence, path_back) ==
    IF path_back # <<>>
    THEN sequence \o Tail(path_back)
    ELSE Append(sequence, supply_point_id)

\* lines 263-264: the destinations of an assignment leave the pool
MutUnserved(pool, served) == pool
Unserved(pool, served) == pool \ Range(served)

\* lines 376-411: the return leg and the ConvoyAssignment
ReturnLeg(vehicle) ==
    LET back == _find_path_distance(current_location, supply_point_id,
                                    avoid_high_threat)
        dist_back ==
            IF back.distance = Inf
            THEN IF _get_coords(current_location) # NoCoords
                    /\ _get_coords(supply_point_id) # NoCoords
                 THEN _haversine_distance(_get_coords(current_location),
                                          _get_coords(supply_point_id))
                 ELSE 0
            ELSE back.distance
    IN  [vehicle_id |-> vehicle.vehicle_id,
         vehicle_mode |-> vehicle.mode,
         supply_point |-> supply_point_id,
         destinations |-> assigned_destinations,
         total_distance |-> total_distance + dist_back,
         total_demand_tons |-> total_demand,
         threat_exposure |-> HigherThreat(back.threat, max_threat_seen),
         route_sequence |-> CloseRoute(route_sequence, back.path)]

\* a vehicle loop that did not advance would give this
MutFinishVehicle ==
    /\ pc = "greedy"
    /\ BestChoices(sorted_vehicles[vi]) = {}
    /\ pc' = "vehicle"
    /\ vi' = vi
    /\ IF assigned_destinations = <<>>
       THEN UNCHANGED <<assignments, remaining_destinations>>
       ELSE /\ assignments' = Append(assignments, ReturnLeg(sorted_vehicles[vi]))
            /\ remaining_destinations' =
                   Unserved(remaining_destinations, assigned_destinations)
    /\ UNCHANGED <<routes, graph, worldVars, supply_point_id, available_vehicles,
                   avoid_high_threat, sorted_vehicles, routeVars, query, result>>

\* the while loop ends (lines 298, 349-350), _assign_vehicle_route returns
\* (lines 373-411) and optimize_routes keeps the assignment (lines 261-264)
FinishVehicle ==
    /\ pc = "greedy"
    /\ BestChoices(sorted_vehicles[vi]) = {}
    /\ pc' = "vehicle"
    /\ vi' = vi + 1
    /\ IF assigned_destinations = <<>>
       THEN UNCHANGED <<assignments, remaining_destinations>>
       ELSE /\ assignments' = Append(assignments, ReturnLeg(sorted_vehicles[vi]))
            /\ remaining_destinations' =
                   Unserved(remaining_destinations, assigned_destinations)
    /\ UNCHANGED <<routes, graph, worldVars, supply_point_id, available_vehicles,
                   avoid_high_threat, sorted_vehicles, routeVars, query, result>>

Next ==
    \/ optimize_routes
    \/ NextVehicle
    \/ SelectDestination
    \/ FinishVehicle

Spec == Init /\ [][Next]_vars

\* a call that has started keeps running: the code is sequential and nothing
\* suspends it
SpecFair == Spec /\ WF_vars(Next)

----------------------------------------------------------------------------
(* Claims on optimize_routes, under Spec                                   *)

Assignments == Range(assignments)

\* the row of the vehicle table an assignment was made for
VehicleOf(a) ==
    vehicles[CHOOSE i \in DOMAIN vehicles : vehicles[i].vehicle_id = a.vehicle_id]

DemandOf(dests) ==
    SeqSum([i \in DOMAIN dests |-> destinations[dests[i]].total_demand_tons])

\* the legs of a route from the supply point over dests and back, each as the
\* path finder measures it
RouteKm(dests) ==
    LET stops == <<supply_point_id>> \o dests \o <<supply_point_id>>
    IN  SeqSum([i \in 1..(Len(stops) - 1) |->
                  _find_path_distance(stops[i], stops[i + 1],
                                      avoid_high_threat).distance])

\* C1: the demand of the assigned destinations never exceeds the capacity of
\* the vehicle, after every selection of the greedy loop and in every
\* assignment returned.
C1_Capacity ==
    /\ pc = "greedy" =>
          /\ total_demand = DemandOf(assigned_destinations)
          /\ total_demand <= sorted_vehicles[vi].capacity_tons
    /\ \A a \in Assignments :
          /\ a.total_demand_tons = DemandOf(a.destinations)
          /\ a.total_demand_tons <= VehicleOf(a).capacity_tons

\* C1 witness: a vehicle holds a destination and the greedy loop skips another
\* one, in range and compatible, only because it would exceed the capacity.
C1_Witness ==
    /\ pc = "greedy"
    /\ assigned_destinations # <<>>
    /\ \E d \in remaining :
          /\ ModeCompatible(sorted_vehicles[vi], d)
          /\ WithinRange(sorted_vehicles[vi], d)
          /\ total_demand + destinations[d].total_demand_tons
                > sorted_vehicles[vi].capacity_tons

\* C2: the total distance of every assignment, the outbound legs plus the
\* return leg to the supply point, is within the range of its vehicle.
C2_Range ==
    \A a \in Assignments :
        /\ a.total_distance = RouteKm(a.destinations)
        /\ a.total_distance <= VehicleOf(a).max_range_km

\* C2 witness: an assignment uses the whole range of its vehicle, and a
\* destination was left unserved.
C2_Witness ==
    \E a \in Assignments :
        /\ a.total_distance = VehicleOf(a).max_range_km
        /\ a.total_distance > 0
        /\ remaining_destinations # {}

\* C3: the destination lists of the assignments of one call are pairwise
\* disjoint and none repeats an id.
C3_Disjoint ==
    /\ \A i, j \in DOMAIN assignments :
          i # j => Range(assignments[i].destinations)
                     \cap Range(assignments[j].destinations) = {}
    /\ \A a \in Assignments :
          \A i, j \in DOMAIN a.destinations :
              i # j => a.destinations[i] # a.destinations[j]

\* C3 witness: two convoys were assigned, each with a destination.
C3_Witness ==
    /\ Len(assignments) = 2
    /\ \A a \in Assignments : a.destinations # <<>>

\* C4: the route of every assignment starts and ends at the supply point of
\* the call.
C4_RoundTrip ==
    \A a \in Assignments :
        /\ a.supply_point = supply_point_id
        /\ Head(a.route_sequence) = supply_point_id
        /\ Last(a.route_sequence) = supply_point_id

\* C4 witness: an assignment whose return leg is a path of two road segments
\* found by the search.
C4_Witness ==
    \E a \in Assignments :
        /\ Len(_find_path_distance(Last(a.destinations), supply_point_id,
                                   avoid_high_threat).path) = 3
        /\ Len(a.route_sequence) >= 4

\* C5: every destination of an AIR assignment has an airstrip, and the greedy
\* loop never skips a destination of a GROUND or WATER vehicle for its airstrip.
C5_AirDestinations ==
    /\ \A a \in Assignments :
          a.vehicle_mode = "AIR" =>
              \A i \in DOMAIN a.destinations :
                  destinations[a.destinations[i]].has_airstrip
    /\ pc = "greedy" =>
          /\ sorted_vehicles[vi].mode = "AIR" =>
                \A i \in DOMAIN assigned_destinations :
                    destinations[assigned_destinations[i]].has_airstrip
          /\ sorted_vehicles[vi].mode # "AIR" =>
                \A d \in remaining : ModeCompatible(sorted_vehicles[vi], d)

\* C5 witness: an AIR assignment was made while a destination without airstrip
\* stayed in the pool.
C5_Witness ==
    \E a \in Assignments :
        /\ a.vehicle_mode = "AIR"
        /\ \E d \in remaining_destinations : ~destinations[d].has_airstrip

\* C6 as stated: the origin of every AIR assignment is a supply point that
\* has an airstrip.
C6_AirOrigin ==
    \A a \in Assignments :
        a.vehicle_mode = "AIR" =>
            /\ a.supply_point \in DOMAIN supply_points
            /\ supply_points[a.supply_point].has_airstrip

\* the scenario of C8: roads SP1-D1 (50 km, low) and SP1-D2 (30 km, high), D2
\* at the coordinates of SP1, one GROUND vehicle of 100 t and 200 km, avoiding
\* high threat
Scenario8 ==
    /\ Len(routes) = 2
    /\ Range(routes) = {Route("SP1", "D1", 50, "low"), Route("SP1", "D2", 30, "high")}
    /\ destinations["D2"].pos = supply_points["SP1"].pos
    /\ destinations["D1"].total_demand_tons = 40
    /\ destinations["D2"].total_demand_tons = 20
    /\ Len(vehicles) = 1
    /\ vehicles[1].capacity_tons = 100
    /\ vehicles[1].max_range_km = 200
    /\ vehicles[1].mode = "GROUND"
    /\ vehicles[1].vehicle_id \in available_vehicles
    /\ supply_point_id = "SP1"
    /\ avoid_high_threat

\* C8 as stated: the scenario returns one convoy with destinations [D1] and a
\* total distance of 100 km; D2 is not assigned.
C8_OnlyD1 ==
    Scenario8 /\ pc = "done" =>
        /\ Len(assignments) = 1
        /\ assignments[1].destinations = <<"D1">>
        /\ assignments[1].total_distance = 100

\* C8 amended: the scenario returns one convoy that serves D2 first, over the
\* 0 km straight-line leg; when D1 passes the range prefilter it follows over
\* the straight line from D2 and the road back (total: that line plus 50 km),
\* otherwise the convoy is [D2] with total distance 0.
C8_D2First ==
    Scenario8 /\ pc = "done" =>
        /\ Len(assignments) = 1
        /\ IF destinations["D1"].pos * 2 <= 200
           THEN /\ assignments[1].destinations = <<"D2", "D1">>
                /\ assignments[1].total_distance = destinations["D1"].pos + 50
           ELSE /\ assignments[1].destinations = <<"D2">>
                /\ assignments[1].total_distance = 0

\* C8 witness: the scenario has run to its end with D1 inside the prefilter.
C8_Witness ==
    /\ Scenario8
    /\ pc = "done"
    /\ destinations["D1"].pos * 2 <= 200
    /\ Len(assignments) = 1

\* the call has an id of no table as its supply point
UnknownSupplyPoint ==
    supply_point_id \notin DOMAIN supply_points \cup DOMAIN destinations

\* C9: a call with a supply point id of no table, with no selected vehicle or
\* with no destination inside the prefilter ends at once with an empty list.
C9_EmptyResult ==
    (\/ UnknownSupplyPoint
     \/ SelectedVehicles = <<>>
     \/ ReachableDestinations(SelectedVehicles) = {})
        => /\ pc \in {"ready", "done"}
           /\ assignments = <<>>

\* C9 witness: a call with vehicles and an unknown supply point id returned.
C9_Witness ==
    /\ pc = "done"
    /\ UnknownSupplyPoint
    /\ SelectedVehicles # <<>>
    /\ assignments = <<>>

----------------------------------------------------------------------------
(* Reference notions for the path claims, defined on the graph alone       *)

\* an edge a -> b the search may traverse
Admissible(a, b, avoid) ==
    /\ a \in DOMAIN graph
    /\ \E i \in DOMAIN graph[a] :
          /\ graph[a][i].to = b
          /\ ~(avoid /\ graph[a][i].threat_level = "high")

GraphNodes == DOMAIN graph \cup UNION {{e.to : e \in Range(graph[n])} : n \in DOMAIN graph}

\* fewest edges of an admissible path, by layers; -1 when there is none
RECURSIVE HopsFrom(_, _, _, _, _)
HopsFrom(frontier, seen, to_id, avoid, k) ==
    IF to_id \in frontier THEN k
    ELSE IF frontier = {} THEN -1
    ELSE LET next == {b \in GraphNodes \ seen :
                        \E a \in frontier : Admissible(a, b, avoid)}
         IN  HopsFrom(next, seen \cup next, to_id, avoid, k + 1)

MinHops(from_id, to_id, avoid) == HopsFrom({from_id}, {from_id}, to_id, avoid, 0)

\* p is a path of admissible edges of the graph
IsAdmissiblePath(p, avoid) ==
    \A i \in 1..(Len(p) - 1) : Admissible(p[i], p[i + 1], avoid)

\* the stored data of the edge p[i] -> p[i+1]
EdgeAt(p, i) ==
    graph[p[i]][CHOOSE j \in DOMAIN graph[p[i]] : graph[p[i]][j].to = p[i + 1]]

PathKm(p) == SeqSum([i \in 1..(Len(p) - 1) |-> EdgeAt(p, i).distance_km])

\* the highest threat rank on p; "low" ranks lowest and stands for no edge
PathRank(p) ==
    LET ranks == {threat_threshold(EdgeAt(p, i).threat_level) :
                    i \in 1..(Len(p) - 1)} \cup {1}
    IN  CHOOSE r \in ranks : \A q \in ranks : q <= r

Reverse(p) == [i \in 1..Len(p) |-> p[Len(p) + 1 - i]]

Returned == pc = "returned"
\* the call returned and an admissible graph path joins its two ends
ReturnedJoined ==
    /\ Returned
    /\ MinHops(query.from_id, query.to_id, query.avoid) >= 0
\* the same query the other way round
Backward == _find_path_distance(query.to_id, query.from_id, query.avoid)

----------------------------------------------------------------------------
(* Claims on _find_path_distance, under SpecPath                           *)

\* C7 as stated: for a graph built from road segments and two locations
\* joined by an admissible graph path, the search from A to B and the search
\* from B to A return the same distance.
C7_SameDistance ==
    ReturnedJoined => result.distance = Backward.distance

\* C7 amended: for two locations joined by an admissible graph path the two
\* directions return paths with the same number of edges, and the same
\* distance whenever one returned path is the other reversed.
C7_SameHops ==
    ReturnedJoined =>
        /\ Len(result.path) = Len(Backward.path)
        /\ (Backward.path = Reverse(result.path)
               => result.distance = Backward.distance)

\* C7 witness: a two-edge path was returned, and the other direction returns
\* a different two-edge path.
C7_Witness ==
    /\ ReturnedJoined
    /\ Len(result.path) = 3
    /\ Len(Backward.path) = 3
    /\ Backward.path # Reverse(result.path)

\* C10: when an admissible graph path joins from and to, the returned path is
\* an admissible path from `from` to `to` with the fewest edges, the distance
\* is the sum of distance_km along it and the threat is the highest rank on it.
C10_MinHopPath ==
    ReturnedJoined =>
        /\ result.path # <<>>
        /\ Head(result.path) = query.from_id
        /\ Last(result.path) = query.to_id
        /\ IsAdmissiblePath(result.path, query.avoid)
        /\ Len(result.path) - 1 = MinHops(query.from_id, query.to_id, query.avoid)
        /\ result.distance = PathKm(result.path)
        /\ threat_threshold(result.threat) = PathRank(result.path)

\* C10 witness: the search returned a three-edge path although more than one
\* level of threat lies on it.
C10_Witness ==
    /\ ReturnedJoined
    /\ Len(result.path) = 4
    /\ result.threat # "low"
    /\ \E i \in 1..3 : EdgeAt(result.path, i).threat_level # result.threat

\* the rows of the road table that join a and b, in either direction
RowsBetween(a, b) ==
    {i \in DOMAIN routes : {routes[i].from_point, routes[i].to_point} = {a, b}}

\* the row that was loaded last among them
LastRowBetween(a, b) ==
    routes[CHOOSE i \in RowsBetween(a, b) : \A j \in RowsBetween(a, b) : j <= i]

\* the id is a row of one of the two location tables
HasCoords(id) == id \in DOMAIN supply_points \cup DOMAIN destinations

PositionOf(id) ==
    IF id \in DOMAIN supply_points THEN supply_points[id].pos
    ELSE destinations[id].pos

\* C11: when a road segment joins two distinct locations and either threat
\* avoidance is off or the segment (as loaded last) is not high, the result is
\* that segment's distance, the two-node path and its threat level, whatever
\* multi-hop paths exist.
C11_DirectEdge ==
    (/\ Returned
     /\ query.from_id # query.to_id
     /\ RowsBetween(query.from_id, query.to_id) # {}
     /\ ~(query.avoid /\
            LastRowBetween(query.from_id, query.to_id).threat_level = "high"))
        => result = PathResult(
                      LastRowBetween(query.from_id, query.to_id).distance_km,
                      <<query.from_id, query.to_id>>,
                      LastRowBetween(query.from_id, query.to_id).threat_level)

\* C11 witness: the direct segment was returned although a two-segment path
\* of lower threat joins the same two locations.
C11_Witness ==
    /\ Returned
    /\ query.from_id # query.to_id
    /\ RowsBetween(query.from_id, query.to_id) # {}
    /\ Len(result.path) = 2
    /\ \E m \in GraphNodes \ {query.from_id, query.to_id} :
          /\ Admissible(query.from_id, m, FALSE)
          /\ Admissible(m, query.to_id, FALSE)
          /\ PathRank(<<query.from_id, m, query.to_id>>)
                < threat_threshold(result.threat)

\* C12: for two distinct locations that no admissible graph path joins, the
\* result is the straight-line distance with the two-node path and threat low
\* when both have coordinates, and (infinite, empty path, high) otherwise; no
\* result has a finite distance and an empty path.
C12_Fallback ==
    /\ (/\ Returned
        /\ query.from_id # query.to_id
        /\ MinHops(query.from_id, query.to_id, query.avoid) < 0)
          => IF HasCoords(query.from_id) /\ HasCoords(query.to_id)
             THEN result = PathResult(
                             Abs(PositionOf(query.from_id) - PositionOf(query.to_id)),
                             <<query.from_id, query.to_id>>, "low")
             ELSE result = PathResult(Inf, <<>>, "high")
    /\ Returned => (result.distance # Inf => result.path # <<>>)

\* C12 witness: both ends are in the graph, only a high-threat road joins
\* them and the search, avoiding it, fell back to the straight line.
C12_Witness ==
    /\ Returned
    /\ query.avoid
    /\ query.from_id \in DOMAIN graph
    /\ query.to_id \in DOMAIN graph
    /\ MinHops(query.from_id, query.to_id, FALSE) > 0
    /\ MinHops(query.from_id, query.to_id, TRUE) < 0
    /\ result.distance > 0
    /\ result.distance # Inf

\* ---- the same call on inputs that differ in the priority column ----

\* the scores the loader gives to a low and to a high priority
PriorityScores == {1, 3}

\* the destinations table with another priority in the row of dest_id; all
\* that the call has computed so far stays as it is
Reprioritize(dest_id, score) ==
    /\ pc # "done"
    /\ dest_id \in DOMAIN destinations
    /\ score # destinations[dest_id].priority_score
    /\ destinations' =
          [destinations EXCEPT ![dest_id].priority_score = score]
    /\ UNCHANGED <<routes, graph, supply_points, vehicles, callVars, pc,
                   routeVars, query, result>>

\* calls on the catalogued supply point with every vehicle selected
InitPriority ==
    /\ Init
    /\ supply_point_id = "SP1"
    /\ available_vehicles = Range(VehicleIds)

NextPriority ==
    \/ Next
    \/ \E dest_id \in DOMAIN destinations, score \in PriorityScores :
          Reprioritize(dest_id, score)

SpecPriority == InitPriority /\ [][NextPriority]_vars

\* everything the code computes from its inputs at the current position to
\* decide what it does next: the early returns, the order and the pool at the
\* start; the origin test at a vehicle; in the greedy loop the candidates it
\* may select, the leg to every remaining destination and its demand, and the
\* assignment and the pool it would leave on stopping
Decisions ==
    CASE pc = "ready" ->
           <<SelectedVehicles, _get_coords(supply_point_id),
             IF SelectedVehicles # <<>> /\ _get_coords(supply_point_id) # NoCoords
             THEN <<ReachableDestinations(SelectedVehicles),
                    SortedByCapacity(SelectedVehicles)>>
             ELSE <<>> >>
      [] pc = "vehicle" ->
           IF vi > Len(sorted_vehicles) \/ remaining_destinations = {}
           THEN <<>>
           ELSE <<AirOriginRejected(sorted_vehicles[vi])>>
      [] pc = "greedy" ->
           <<BestChoices(sorted_vehicles[vi]),
             [d \in remaining \cap DOMAIN destinations |->
                <<_find_path_distance(current_location, d, avoid_high_threat),
                  _get_demand(destinations[d])>>],
             IF assigned_destinations # <<>>
             THEN <<ReturnLeg(sorted_vehicles[vi]),
                    Unserved(remaining_destinations, assigned_destinations)>>
             ELSE <<>> >>
      [] OTHER -> <<>>

Km(from_id, to_id) ==
    _find_path_distance(from_id, to_id, avoid_high_threat).distance

\* the four tests of a candidate d for a vehicle standing at loc with km
\* travelled and tons loaded: mode, capacity, reachability, range
Fits(vehicle, loc, km, tons, d) ==
    /\ d \in DOMAIN destinations
    /\ vehicle.mode = "AIR" => destinations[d].has_airstrip
    /\ tons + destinations[d].total_demand_tons <= vehicle.capacity_tons
    /\ Km(loc, d) < Inf
    /\ Km(d, supply_point_id) < Inf
    /\ km + Km(loc, d) + Km(d, supply_point_id) <= vehicle.max_range_km

\* a step of the greedy loop that selects a destination
Selects ==
    /\ pc = "greedy"
    /\ pc' = "greedy"
    /\ assigned_destinations' # assigned_destinations

\* a step that ends the greedy loop of the current vehicle
Stops == pc = "greedy" /\ pc' = "vehicle"

\* a step after which the vehicle loop is at the next vehicle
Passes == pc \in {"vehicle", "greedy"} /\ vi' = vi + 1

\* C13: every selection takes a destination of the remaining set that passes
\* the four tests from the current location, and no other remaining
\* destination that passes them is strictly closer to the current location.
C13_NearestEligible ==
    [][Selects =>
         LET chosen == Last(assigned_destinations')
             vehicle == sorted_vehicles[vi]
         IN  /\ chosen \in remaining
             /\ Fits(vehicle, current_location, total_distance, total_demand,
                     chosen)
             /\ \A o \in remaining :
                   Fits(vehicle, current_location, total_distance,
                        total_demand, o)
                     => Km(current_location, o) >= Km(current_location, chosen)
    ]_vars

\* C13 witness: after the first selection a destination that also passed the
\* tests from the supply point, but lies farther, is still waiting.
C13_Witness ==
    /\ pc = "greedy"
    /\ Len(assigned_destinations) = 1
    /\ \E o \in remaining :
          /\ Fits(sorted_vehicles[vi], supply_point_id, 0, 0, o)
          /\ Fits(sorted_vehicles[vi], supply_point_id, 0, 0,
                  assigned_destinations[1])
          /\ Km(supply_point_id, o) > Km(supply_point_id, assigned_destinations[1])

\* C14: when the loop of a vehicle ends, no destination of its remaining set
\* passes the four tests from its final location; and a vehicle is passed
\* without an assignment only when the AIR origin rule rejected it or no
\* destination of the pool passed the tests from the supply point.
C14_Exhaustion ==
    [][/\ Stops =>
            \A d \in remaining :
               ~Fits(sorted_vehicles[vi], current_location, total_distance,
                     total_demand, d)
       /\ (Passes /\ assignments' = assignments) =>
            \/ /\ sorted_vehicles[vi].mode = "AIR"
               /\ supply_point_id \in DOMAIN supply_points
               /\ ~supply_points[supply_point_id].has_airstrip
            \/ \A d \in remaining_destinations :
                  ~Fits(sorted_vehicles[vi], supply_point_id, 0, 0, d)
    ]_vars

\* C14 witness: a vehicle with a stop behind it faces a non-empty remaining
\* set of which nothing passes the tests any more, so its loop ends here.
C14_Witness ==
    /\ pc = "greedy"
    /\ assigned_destinations # <<>>
    /\ remaining # {}
    /\ \A d \in remaining :
          ~Fits(sorted_vehicles[vi], current_location, total_distance,
                total_demand, d)

\* position in the processing order of the vehicle of the k-th assignment
ProcessedAt(k) ==
    CHOOSE i \in DOMAIN sorted_vehicles :
        sorted_vehicles[i].vehicle_id = assignments[k].vehicle_id

\* destinations served by the assignments made so far
ServedSoFar ==
    {d \in DOMAIN destinations : \E a \in Assignments : d \in Range(a.destinations)}

\* C15: once the call has passed its early returns, the processing order holds
\* each selected vehicle once with non-increasing capacities; the assignments
\* are those of vehicles already passed, in processing order, so their
\* capacities are non-increasing; the pool a vehicle works on is the initial
\* pool less what earlier vehicles served; no vehicle starts on an empty pool.
C15_ProcessingOrder ==
    pc \in {"vehicle", "greedy"} \/ (pc = "done" /\ sorted_vehicles # <<>>) =>
      /\ Len(sorted_vehicles) = Len(SelectedVehicles)
      /\ \A v \in Range(SelectedVehicles) :
            Cardinality({i \in DOMAIN sorted_vehicles : sorted_vehicles[i] = v}) = 1
      /\ \A i \in 1..(Len(sorted_vehicles) - 1) :
            sorted_vehicles[i].capacity_tons >= sorted_vehicles[i + 1].capacity_tons
      /\ \A k \in DOMAIN assignments :
            /\ \E i \in DOMAIN sorted_vehicles :
                  sorted_vehicles[i].vehicle_id = assignments[k].vehicle_id
            /\ ProcessedAt(k) < vi
            /\ k > 1 => ProcessedAt(k - 1) < ProcessedAt(k)
            /\ k > 1 => VehicleOf(assignments[k - 1]).capacity_tons
                          >= VehicleOf(assignments[k]).capacity_tons
      /\ remaining_destinations =
            ReachableDestinations(SelectedVehicles) \ ServedSoFar
      /\ pc = "greedy" =>
            /\ remaining_destinations # {}
            /\ remaining \cup Range(assigned_destinations) = remaining_destinations

\* C15 witness: the table lists the smaller vehicle first; the larger one was
\* processed first and emptied the pool, so the call ended with the smaller
\* vehicle never started.
C15_Witness ==
    /\ pc = "done"
    /\ Len(vehicles) = 2
    /\ Len(sorted_vehicles) = 2
    /\ vehicles[1].capacity_tons < vehicles[2].capacity_tons
    /\ Len(assignments) = 1
    /\ assignments[1].vehicle_id = vehicles[2].vehicle_id
    /\ remaining_destinations = {}
    /\ vi = 2

\* C17: in a call that avoids high threat, on a graph whose threat levels are
\* low, medium or high, no path query between any two ids has a finite
\* distance with threat high (queried on the graph the call starts with, which
\* the call never changes), the threat accumulated by a vehicle is never high,
\* and no assignment has threat_exposure high.
C17_NoHighExposure ==
    (/\ avoid_high_threat
     /\ \A i \in DOMAIN routes :
           routes[i].threat_level \in {"low", "medium", "high"}) =>
      /\ pc = "ready" =>
            \A from_id \in QueryIds, to_id \in QueryIds :
               LET found == _find_path_distance(from_id, to_id, TRUE)
               IN  found.distance # Inf => found.threat # "high"
      /\ pc = "greedy" => max_threat_seen # "high"
      /\ \A a \in Assignments : a.threat_exposure # "high"

\* C17 witness: an avoiding call has served a destination that a high-threat
\* road joins to the supply point.
C17_Witness ==
    /\ avoid_high_threat
    /\ pc = "done"
    /\ \E a \in Assignments :
          \E d \in Range(a.destinations) :
             /\ RowsBetween(supply_point_id, d) # {}
             /\ LastRowBetween(supply_point_id, d).threat_level = "high"

\* C18: after every selection the path finder's way back from the current
\* location to the supply point is finite, has a path, and fits with the
\* distance travelled into the vehicle's range; so the assignment built on
\* stopping adds exactly that distance and never the substitute distance.
C18_ReturnInvariant ==
    (pc = "greedy" /\ assigned_destinations # <<>>) =>
      LET back == _find_path_distance(current_location, supply_point_id,
                                      avoid_high_threat)
      IN  /\ back.distance # Inf
          /\ back.path # <<>>
          /\ total_distance + back.distance <= sorted_vehicles[vi].max_range_km
          /\ ReturnLeg(sorted_vehicles[vi]).total_distance
               = total_distance + back.distance

\* C18 witness: a vehicle two stops out, with a way back of positive length.
C18_Witness ==
    /\ pc = "greedy"
    /\ Len(assigned_destinations) = 2
    /\ Km(current_location, supply_point_id) > 0
    /\ Km(current_location, supply_point_id) < Inf

\* steps the call still has room for: vehicles not yet passed, each counted
\* with a full greedy loop, plus the candidates left to the current loop
Width == Cardinality(DOMAIN destinations) + 2

Measure ==
    CASE pc = "ready" -> (Len(vehicles) + 2) * Width
      [] pc = "vehicle" -> (Len(sorted_vehicles) + 1 - vi) * Width + Width - 1
      [] pc = "greedy" ->
           (Len(sorted_vehicles) + 1 - vi) * Width + Cardinality(remaining)
      [] OTHER -> 0

\* C19: every call reaches its return. Each step takes the call nearer to it:
\* a greedy iteration removes one destination from the remaining set or leaves
\* the loop, and leaving moves the vehicle loop to the next vehicle, which it
\* never revisits. Every path query on the call's graph returns, with a path
\* that visits no location twice.
C19_Terminates ==
    /\ <>(pc = "done")
    /\ [][/\ Measure' < Measure
          /\ Measure' >= 0
          /\ pc = "greedy" =>
               \/ /\ pc' = "greedy"
                  /\ remaining' \subseteq remaining
                  /\ Cardinality(remaining') = Cardinality(remaining) - 1
               \/ pc' = "vehicle" /\ vi' = vi + 1
          /\ vi' >= vi]_vars
    /\ [](pc = "ready" =>
            \A from_id \in QueryIds, to_id \in QueryIds :
               NoRepeat(_find_path_distance(from_id, to_id,
                                            avoid_high_threat).path))

\* C19 witness: a call on a graph of two roads has returned after both
\* vehicles went through the greedy loop and each made a stop.
C19_Witness ==
    /\ pc = "done"
    /\ Len(routes) = 2
    /\ vi = 3
    /\ Len(assignments) = 2

====
